---------------------------- MODULE Spec2Model ----------------------------
(***************************************************************************)
(* A model of scripts/compile.py: the compiler from a light pattern (one   *)
(* row of block durations, one row of powered states per colour) to a      *)
(* schedule of timed function calls.                                       *)
(*                                                                         *)
(* Every generator of the script is modelled by an operator that performs  *)
(* one resumption of it (one next()), returning what the resumption did    *)
(* (yield / raise / stop) together with the generator's new local state.   *)
(* The same operators are driven alone, from in-memory lists, by the       *)
(* specifications SpecStates, SpecSwitches, SpecTimed and SpecGrouped, and *)
(* composed, as the script composes them, by Spec.                         *)
(*                                                                         *)
(* A text is a sequence of one-character strings, so that strip() is a     *)
(* computation; durations are whole numbers of microseconds, the           *)
(* resolution of datetime.timedelta.                                       *)
(***************************************************************************)
EXTENDS Integers, Sequences, FiniteSets, Bags, TLC

VARIABLES
    statesRun,    \* light_states driven alone over one row
    switchesRun,  \* light_switches driven alone over one list of states
    timedRun,     \* timed_switches driven alone over two lists
    groupedRun,   \* sorted_grouped_calls driven alone over lists of calls
    durations,    \* the script: the tuple of block durations
    rows,         \* the script: the rows left in the reader after the first
    gens,         \* the script: per colour, the locals of its generators
    chan,         \* the script: the generator itertools.chain is draining
    chained,      \* the script: the timed calls sorted() has collected
    ordered,      \* the script: the list sorted() returned to groupby
    written,      \* the script: the (time, calls) pairs written to codefile
    pc,           \* the script: "chain", "group", "done" or "raised"
    error         \* the script: the exception that ended it, if any

vars == <<statesRun, switchesRun, timedRun, groupedRun, durations, rows,
          gens, chan, chained, ordered, written, pc, error>>

scriptVars == <<durations, rows, gens, chan, chained, ordered, written, pc,
                error>>

-----------------------------------------------------------------------------
(* Bounds of the model.                                                    *)

MaxPad == 1           \* most blanks put on either side of a text
MaxRowLen == 2        \* longest row of texts given to light_states alone
MaxStates == 4        \* longest list of states given to light_switches
MaxDurations == 3     \* longest list of durations given to timed_switches
MaxSwitches == 3      \* longest list of switches given to timed_switches
MaxDuration == 2      \* largest single duration
MaxArgs == 2          \* most iterables given to sorted_grouped_calls
MaxCalls == 3         \* most calls in those iterables together
MaxTime == 1          \* largest time of a call given to sorted_grouped_calls
MaxBlocks == 1        \* the script: most durations in the first row
MaxCells == 3         \* the script: most cells in the other rows together
MaxRows == 2          \* the script: most rows after the first

BoundedSeq(S, n) == UNION {[1..m -> S] : m \in 0..n}

Min(a, b) == IF a < b THEN a ELSE b

-----------------------------------------------------------------------------
(* The values of the script.                                               *)

LightState == {"LightState.ON", "LightState.OFF", "LightState.UNDETERMINED"}

LightSwitch == {"LightSwitch.ON", "LightSwitch.OFF"}

None == "None"

\* The names of the members of LightState, as texts.
ON == <<"O", "N">>
OFF == <<"O", "F", "F">>
UNDETERMINED == <<"U", "N", "D", "E", "T", "E", "R", "M", "I", "N", "E", "D">>

\* LightState[name]: the members of the enumeration by name.
LightStateByName ==
    (ON :> "LightState.ON") @@ (OFF :> "LightState.OFF")
        @@ (UNDETERMINED :> "LightState.UNDETERMINED")

\* What one resumption of a generator (or one next() of an iterator) does.
Yield(v) == [kind |-> "yield", val |-> v]
Raise(e) == [kind |-> "raise", val |-> e]
Stop == [kind |-> "stop", val |-> None]
Continue == [kind |-> "continue", val |-> None]

\* The exceptions of the script; `about` is the text the message quotes.
CouldNotInterpret(state) ==
    [type |-> "ValueError", msg |-> "Could not interpret", about |-> state]
MustBeNonempty ==
    [type |-> "ValueError", msg |-> "must be nonempty", about |-> <<>>]
FirstCannotBeUndetermined ==
    [type |-> "ValueError", msg |-> "First cannot be UNDETERMINED",
     about |-> <<>>]
KeyError == [type |-> "KeyError", msg |-> "", about |-> <<>>]
NoError == [type |-> "", msg |-> "", about |-> <<>>]
RuntimeError == [type |-> "RuntimeError", msg |-> "", about |-> <<>>]

\* next() of the iterator of a list of which i elements were taken.
ListNext(seq, i) == IF i < Len(seq) THEN Yield(seq[i + 1]) ELSE Stop

-----------------------------------------------------------------------------
(* light_states                                                            *)

Whitespace == {" ", "\t", "\n", "\r", "\f"}

RECURSIVE LStrip(_)
LStrip(s) ==
    IF s # <<>> /\ Head(s) \in Whitespace THEN LStrip(Tail(s)) ELSE s

RECURSIVE RStrip(_)
RStrip(s) ==
    IF s # <<>> /\ s[Len(s)] \in Whitespace
    THEN RStrip(SubSeq(s, 1, Len(s) - 1))
    ELSE s

Strip_LeadingOnly(s) == LStrip(s)

\* str.strip()
Strip(s) == RStrip(LStrip(s))

\* One resumption of light_states(row) that has consumed i cells of row.
light_states(row, i) ==
    LET cell == ListNext(row, i)
    IN  IF cell.kind = "stop" THEN Stop
        ELSE LET state == Strip(cell.val)
             IN  IF state = <<>> THEN Yield("LightState.UNDETERMINED")
                 ELSE IF state \in DOMAIN LightStateByName
                      THEN Yield(LightStateByName[state])
                      ELSE Raise(CouldNotInterpret(state))

\* The texts a cell is drawn from: a core, blanks on either side of it.
Cores == {<<>>, ON, OFF, UNDETERMINED, <<"o", "n">>, <<"O", " ", "N">>,
          <<"G", "R", "E", "E", "N">>}

Pads == BoundedSeq({" "}, MaxPad)

Tokens ==
    {l \o c \o r : l \in Pads, c \in Cores, r \in Pads}
        \cup {<<"\t", "O", "N", "\n">>, <<"\r", "\f">>}

StatesIdle == [row |-> <<>>, i |-> 0, out |-> <<>>, status |-> "idle",
               error |-> NoError]

StatesInit ==
    \E row \in BoundedSeq(Tokens, MaxRowLen) :
        statesRun = [row |-> row, i |-> 0, out |-> <<>>,
                     status |-> "running", error |-> NoError]

\* A consumer takes the next state from light_states(row).
StatesPull ==
    /\ statesRun.status = "running"
    /\ LET r == light_states(statesRun.row, statesRun.i)
       IN  statesRun' =
             CASE r.kind = "yield" ->
                    [statesRun EXCEPT !.i = @ + 1, !.out = Append(@, r.val)]
               [] r.kind = "raise" ->
                    [statesRun EXCEPT !.i = @ + 1, !.status = "raised",
                                      !.error = r.val]
               [] OTHER -> [statesRun EXCEPT !.status = "stopped"]

-----------------------------------------------------------------------------
(* light_switches                                                          *)

\* The dictionary the first state is looked up in.
FirstSwitch ==
    ("LightState.ON" :> "LightSwitch.ON")
        @@ ("LightState.OFF" :> "LightSwitch.OFF")

FirstStateRejected_Never(state) == FALSE

\* The test made on the first state before anything is yielded.
FirstStateRejected(state) == state = "LightState.UNDETERMINED"

Tracked_FirstOnly(state, next_state) == state

\* The value `state` holds after a later state was handled.
Tracked(state, next_state) == next_state

\* The locals of light_switches before its first resumption.
SwitchesNew == [started |-> FALSE, state |-> None]

\* One resumption of light_switches with locals g, where up is what the
\* next() it makes on its argument does.  Gives the result and the locals.
light_switches(g, up) ==
    IF ~g.started
    THEN IF up.kind = "stop" THEN [res |-> Raise(MustBeNonempty), g |-> g]
         ELSE IF up.kind = "raise" THEN [res |-> up, g |-> g]
         ELSE IF FirstStateRejected(up.val)
              THEN [res |-> Raise(FirstCannotBeUndetermined), g |-> g]
         ELSE IF up.val \notin DOMAIN FirstSwitch
              THEN [res |-> Raise(KeyError), g |-> g]
         ELSE [res |-> Yield(FirstSwitch[up.val]),
               g |-> [started |-> TRUE, state |-> up.val]]
    ELSE IF up.kind # "yield" THEN [res |-> up, g |-> g]
         ELSE LET next_state == up.val
                  moved == [g EXCEPT !.state = Tracked(g.state, next_state)]
              IN  IF \/ next_state = g.state
                     \/ next_state = "LightState.UNDETERMINED"
                  THEN [res |-> Yield(None), g |-> moved]
                  ELSE IF next_state = "LightState.ON"
                       THEN [res |-> Yield("LightSwitch.ON"), g |-> moved]
                  ELSE IF next_state = "LightState.OFF"
                       THEN [res |-> Yield("LightSwitch.OFF"), g |-> moved]
                  ELSE [res |-> Raise(RuntimeError), g |-> g]

SwitchesIdle == [states |-> <<>>, i |-> 0, g |-> SwitchesNew, out |-> <<>>,
                 status |-> "idle", error |-> NoError]

SwitchesInit ==
    \E states \in BoundedSeq(LightState, MaxStates) :
        switchesRun = [states |-> states, i |-> 0, g |-> SwitchesNew,
                       out |-> <<>>, status |-> "running", error |-> NoError]

\* A consumer takes the next switch from light_switches(states).
SwitchesPull ==
    /\ switchesRun.status = "running"
    /\ LET up == ListNext(switchesRun.states, switchesRun.i)
           r == light_switches(switchesRun.g, up)
           taken == IF up.kind = "yield" THEN switchesRun.i + 1
                    ELSE switchesRun.i
       IN  switchesRun' =
             CASE r.res.kind = "yield" ->
                    [switchesRun EXCEPT !.i = taken, !.g = r.g,
                                        !.out = Append(@, r.res.val)]
               [] r.res.kind = "raise" ->
                    [switchesRun EXCEPT !.i = taken, !.status = "raised",
                                        !.error = r.res.val]
               [] OTHER -> [switchesRun EXCEPT !.status = "stopped"]

-----------------------------------------------------------------------------
(* timed_switches                                                          *)

accumulate_NoInitial(durs, k, total) ==
    IF k < Len(durs) THEN Yield(total + durs[k + 1]) ELSE Stop

\* next() of itertools.accumulate(durs, initial=datetime.timedelta()) that
\* has yielded k items, the last of them total.
accumulate(durs, k, total) ==
    IF k = 0 THEN Yield(0)
    ELSE IF k <= Len(durs) THEN Yield(total + durs[k]) ELSE Stop

\* next() of zip(first, second): a is what next(first) does and b what
\* next(second) does; second is asked only when first yields.
Zip(a, b) ==
    IF a.kind # "yield" THEN a
    ELSE IF b.kind # "yield" THEN b
    ELSE Yield(<<a.val, b.val>>)

ZipAsksSecond(a) == a.kind = "yield"

\* One turn of the loop of timed_switches: a is what next() of the
\* accumulated durations does, b what next() of the switches does.
timed_switches(a, b) ==
    LET pair == Zip(a, b)
    IN  IF pair.kind # "yield" THEN pair
        ELSE IF pair.val[2] # None THEN Yield(pair.val)
        ELSE Continue

TimedIdle == [durations |-> <<>>, switches |-> <<>>, k |-> 0, total |-> 0,
              j |-> 0, out |-> <<>>, at |-> <<>>, status |-> "idle"]

TimedInit ==
    \E durs \in BoundedSeq(0..MaxDuration, MaxDurations),
       sws \in BoundedSeq(LightSwitch \cup {None}, MaxSwitches) :
        timedRun = [durations |-> durs, switches |-> sws, k |-> 0,
                    total |-> 0, j |-> 0, out |-> <<>>, at |-> <<>>,
                    status |-> "running"]

\* timed_switches(durations, switches) makes one turn of its loop; `at`
\* records the index (from 0) of the switch behind each element of `out`.
TimedTurn ==
    /\ timedRun.status = "running"
    /\ LET a == accumulate(timedRun.durations, timedRun.k, timedRun.total)
           b == ListNext(timedRun.switches, timedRun.j)
           r == timed_switches(a, b)
           asked == ZipAsksSecond(a)
           moved == [timedRun EXCEPT
                       !.k = IF a.kind = "yield" THEN @ + 1 ELSE @,
                       !.total = IF a.kind = "yield" THEN a.val ELSE @,
                       !.j = IF asked /\ b.kind = "yield" THEN @ + 1 ELSE @]
       IN  timedRun' =
             CASE r.kind = "yield" ->
                    [moved EXCEPT !.out = Append(@, r.val),
                                  !.at = Append(@, timedRun.j)]
               [] r.kind = "continue" -> moved
               [] OTHER -> [moved EXCEPT !.status = "stopped"]

-----------------------------------------------------------------------------
(* timed_calls                                                             *)

\* One resumption of timed_calls: r is what one turn of the timed switches
\* it iterates does.
timed_calls(r, on, off) ==
    LET calls == ("LightSwitch.ON" :> on) @@ ("LightSwitch.OFF" :> off)
    IN  IF r.kind = "yield" THEN Yield(<<r.val[1], calls[r.val[2]]>>)
        ELSE r

-----------------------------------------------------------------------------
(* sorted_grouped_calls                                                    *)

first(call) == call[1]
second(call) == call[2]

\* list(itertools.chain(*args)) for lists args
RECURSIVE Chain(_)
Chain(args) ==
    IF args = <<>> THEN <<>> ELSE Head(args) \o Chain(Tail(args))

RECURSIVE Insert_BeforeEqual(_, _)
Insert_BeforeEqual(done, call) ==
    IF done # <<>> /\ first(done[Len(done)]) >= first(call)
    THEN Append(Insert_BeforeEqual(SubSeq(done, 1, Len(done) - 1), call),
                done[Len(done)])
    ELSE Append(done, call)

\* The place sorted(..., key=first) gives call among the sorted calls
\* `done` that came before it: after every call whose time is not larger.
RECURSIVE Insert(_, _)
Insert(done, call) ==
    IF done # <<>> /\ first(done[Len(done)]) > first(call)
    THEN Append(Insert(SubSeq(done, 1, Len(done) - 1), call), done[Len(done)])
    ELSE Append(done, call)

RECURSIVE InsertAll(_, _)
InsertAll(done, calls) ==
    IF calls = <<>> THEN done
    ELSE InsertAll(Insert(done, Head(calls)), Tail(calls))

Sorted_AsGiven(calls) == calls

\* sorted(calls, key=first): a stable sort by time.
Sorted(calls) == InsertAll(<<>>, calls)

\* The number of calls at the head of `calls` that have the time of its
\* first call: the group itertools.groupby(calls, key=first) yields next.
RECURSIVE GroupLen(_)
GroupLen(calls) ==
    IF Len(calls) >= 2 /\ first(calls[2]) = first(calls[1])
    THEN 1 + GroupLen(Tail(calls))
    ELSE Min(1, Len(calls))

\* One turn of the loop of sorted_grouped_calls over the sorted calls of
\* which `taken` are already grouped.
GroupByNext(calls, taken) ==
    IF taken >= Len(calls) THEN Stop
    ELSE LET rest == SubSeq(calls, taken + 1, Len(calls))
             n == GroupLen(rest)
         IN  Yield(<<first(rest[1]), [q \in 1..n |-> second(rest[q])]>>)

Names == {"turn_green_on", "turn_red_off"}

Calls == (0..MaxTime) \X Names

RECURSIVE Sum(_)
Sum(lens) == IF lens = <<>> THEN 0 ELSE Head(lens) + Sum(Tail(lens))

\* flat cut into consecutive pieces of the given lengths
RECURSIVE Split(_, _)
Split(flat, lens) ==
    IF lens = <<>> THEN <<>>
    ELSE <<SubSeq(flat, 1, Head(lens))>>
            \o Split(SubSeq(flat, Head(lens) + 1, Len(flat)), Tail(lens))

GroupedIdle == [args |-> <<>>, sorted |-> <<>>, taken |-> 0, out |-> <<>>,
                status |-> "idle"]

GroupedInit ==
    \E flat \in BoundedSeq(Calls, MaxCalls), n \in 0..MaxArgs :
        \E lens \in [1..n -> 0..Len(flat)] :
            /\ Sum(lens) = Len(flat)
            /\ groupedRun = [args |-> Split(flat, lens), sorted |-> <<>>,
                             taken |-> 0, out |-> <<>>, status |-> "new"]

\* The first resumption of sorted_grouped_calls(*args): it sorts the
\* chained calls, then acts as every later resumption does.
GroupedFirst ==
    /\ groupedRun.status = "new"
    /\ LET calls == Sorted(Chain(groupedRun.args))
           r == GroupByNext(calls, 0)
       IN  groupedRun' =
             IF r.kind = "yield"
             THEN [groupedRun EXCEPT !.sorted = calls,
                                     !.taken = Len(r.val[2]),
                                     !.out = Append(@, r.val),
                                     !.status = "grouping"]
             ELSE [groupedRun EXCEPT !.sorted = calls, !.status = "stopped"]

\* A later resumption: the next group, or the end.
GroupedLater ==
    /\ groupedRun.status = "grouping"
    /\ LET r == GroupByNext(groupedRun.sorted, groupedRun.taken)
       IN  groupedRun' =
             IF r.kind = "yield"
             THEN [groupedRun EXCEPT !.taken = @ + Len(r.val[2]),
                                     !.out = Append(@, r.val)]
             ELSE [groupedRun EXCEPT !.status = "stopped"]

-----------------------------------------------------------------------------
(* The script                                                              *)

COLORS == <<"green", "yellow", "red">>

\* zip(COLORS, reader): the rows that get a colour.
Coloured(reader) == SubSeq(reader, 1, Min(Len(COLORS), Len(reader)))

OnName(color) == "turn_" \o color \o "_on"
OffName(color) == "turn_" \o color \o "_off"

\* The locals of the generators made for one row, none yet resumed.
GenNew == [i |-> 0, g |-> SwitchesNew, k |-> 0, total |-> 0, done |-> FALSE]

\* One turn of the loop of timed_switches inside the generators of the
\* c-th colour, each resuming the one it iterates: what timed_calls then
\* does, and the locals of them all.
Turn(c) ==
    LET gen == gens[c]
        a == accumulate(durations, gen.k, gen.total)
        cell == light_states(rows[c], gen.i)
        sw == light_switches(gen.g, cell)
        r == timed_calls(timed_switches(a, sw.res),
                         OnName(COLORS[c]), OffName(COLORS[c]))
        asked == ZipAsksSecond(a)
    IN  [res |-> r,
         gen |-> [gen EXCEPT
                    !.k = IF a.kind = "yield" THEN @ + 1 ELSE @,
                    !.total = IF a.kind = "yield" THEN a.val ELSE @,
                    !.i = IF asked /\ cell.kind # "stop" THEN @ + 1 ELSE @,
                    !.g = IF asked THEN sw.g ELSE @,
                    !.done = r.kind = "stop"]]

ChainExhausted_AfterFirst(c, n) == c > Min(1, n)

\* itertools.chain has no generator left once it drained them all.
ChainExhausted(c, n) == c > n

CellTexts == {ON, OFF, <<>>, <<"G", "R", "E", "E", "N">>}

ScriptIdle ==
    /\ durations = <<>> /\ rows = <<>> /\ gens = <<>> /\ chan = 0
    /\ chained = <<>> /\ ordered = <<>> /\ written = <<>>
    /\ pc = "idle" /\ error = NoError

\* The state when sorted_grouped_calls is first resumed: the first row was
\* read into durations, and unpacking the generator expression has read the
\* other rows and made the generators of each of the first three.
ScriptInit ==
    /\ durations \in BoundedSeq(1..MaxDuration, MaxBlocks)
    /\ \E flat \in BoundedSeq(CellTexts, MaxCells), n \in 0..MaxRows :
         \E lens \in [1..n -> 0..Len(flat)] :
            /\ Sum(lens) = Len(flat)
            /\ rows = Coloured(Split(flat, lens))
    /\ gens = [c \in 1..Len(rows) |-> GenNew]
    /\ chan = 1
    /\ chained = <<>> /\ ordered = <<>> /\ written = <<>>
    /\ pc = "chain" /\ error = NoError

\* sorted() asks chain for the next call: one turn of the loop of
\* timed_switches in the generators chain is draining.
PullCall ==
    /\ pc = "chain"
    /\ ~ChainExhausted(chan, Len(rows))
    /\ LET t == Turn(chan)
       IN  /\ gens' = [gens EXCEPT ![chan] = t.gen]
           /\ chained' = IF t.res.kind = "yield"
                         THEN Append(chained, t.res.val) ELSE chained
           /\ chan' = IF t.res.kind = "stop" THEN chan + 1 ELSE chan
           /\ pc' = IF t.res.kind = "raise" THEN "raised" ELSE pc
           /\ error' = IF t.res.kind = "raise" THEN t.res.val ELSE error
    /\ UNCHANGED <<durations, rows, ordered, written>>

\* chain is exhausted: sorted() returns, and groupby gets the list.
SortChained ==
    /\ pc = "chain"
    /\ ChainExhausted(chan, Len(rows))
    /\ ordered' = Sorted(chained)
    /\ pc' = "group"
    /\ UNCHANGED <<durations, rows, gens, chan, chained, written, error>>

\* The loop of the script takes the next (time, calls) and writes it.
WriteGroup ==
    /\ pc = "group"
    /\ LET taken == Len(Chain([q \in 1..Len(written) |-> written[q][2]]))
           r == GroupByNext(ordered, taken)
       IN  /\ written' = IF r.kind = "yield" THEN Append(written, r.val)
                         ELSE written
           /\ pc' = IF r.kind = "yield" THEN pc ELSE "done"
    /\ UNCHANGED <<durations, rows, gens, chan, chained, ordered, error>>

-----------------------------------------------------------------------------
(* The specifications                                                      *)

\* light_states alone
StatesStart ==
    /\ StatesInit /\ switchesRun = SwitchesIdle /\ timedRun = TimedIdle
    /\ groupedRun = GroupedIdle /\ ScriptIdle

StatesNext ==
    StatesPull /\ UNCHANGED <<switchesRun, timedRun, groupedRun, scriptVars>>

SpecStates == StatesStart /\ [][StatesNext]_vars

\* light_switches alone
SwitchesStart ==
    /\ SwitchesInit /\ statesRun = StatesIdle /\ timedRun = TimedIdle
    /\ groupedRun = GroupedIdle /\ ScriptIdle

SwitchesNext ==
    SwitchesPull /\ UNCHANGED <<statesRun, timedRun, groupedRun, scriptVars>>

SpecSwitches == SwitchesStart /\ [][SwitchesNext]_vars

\* timed_switches alone
TimedStart ==
    /\ TimedInit /\ statesRun = StatesIdle /\ switchesRun = SwitchesIdle
    /\ groupedRun = GroupedIdle /\ ScriptIdle

TimedNext ==
    TimedTurn /\ UNCHANGED <<statesRun, switchesRun, groupedRun, scriptVars>>

SpecTimed == TimedStart /\ [][TimedNext]_vars

\* sorted_grouped_calls alone
GroupedStart ==
    /\ GroupedInit /\ statesRun = StatesIdle /\ switchesRun = SwitchesIdle
    /\ timedRun = TimedIdle /\ ScriptIdle

GroupedNext ==
    \/ GroupedFirst /\ UNCHANGED <<statesRun, switchesRun, timedRun, scriptVars>>
    \/ GroupedLater /\ UNCHANGED <<statesRun, switchesRun, timedRun, scriptVars>>

SpecGrouped == GroupedStart /\ [][GroupedNext]_vars

\* the script
Init ==
    /\ ScriptInit
    /\ statesRun = StatesIdle /\ switchesRun = SwitchesIdle
    /\ timedRun = TimedIdle /\ groupedRun = GroupedIdle

Next ==
    \/ PullCall /\ UNCHANGED <<statesRun, switchesRun, timedRun, groupedRun>>
    \/ SortChained /\ UNCHANGED <<statesRun, switchesRun, timedRun, groupedRun>>
    \/ WriteGroup /\ UNCHANGED <<statesRun, switchesRun, timedRun, groupedRun>>

Spec == Init /\ [][Next]_vars

-----------------------------------------------------------------------------
(* Properties of light_states, under SpecStates                            *)

\* text without the whitespace before its first and after its last
\* character that is not whitespace
TrimOf(text) ==
    LET inner == {q \in 1..Len(text) : text[q] \notin Whitespace}
    IN  IF inner = {} THEN <<>>
        ELSE SubSeq(text, CHOOSE q \in inner : \A r \in inner : q <= r,
                          CHOOSE q \in inner : \A r \in inner : q >= r)

\* Every cell taken from the row so far was handled as `accepted` says:
\* a cell whose trimmed text is in its domain gave that state, any other
\* cell ended the parser with the error that quotes the trimmed text; and
\* the parser stops only at the end of the row.
ParsedBy(accepted) ==
    /\ \A q \in 1..statesRun.i :
         LET t == TrimOf(statesRun.row[q])
         IN  IF t \in DOMAIN accepted
             THEN q <= Len(statesRun.out) /\ statesRun.out[q] = accepted[t]
             ELSE /\ q = Len(statesRun.out) + 1
                  /\ statesRun.status = "raised"
                  /\ statesRun.error.type = "ValueError"
                  /\ statesRun.error.about = t
    /\ statesRun.status = "raised" => statesRun.i = Len(statesRun.out) + 1
    /\ statesRun.status = "stopped" =>
         statesRun.i = Len(statesRun.row) /\ Len(statesRun.out) = statesRun.i

\* C4, as claimed: the parser maps the empty text to UNDETERMINED, `ON`
\* to ON, `OFF` to OFF, and fails on every other text, `UNDETERMINED`
\* included.
C4_OnlyOnAndOff ==
    ParsedBy((<<>> :> "LightState.UNDETERMINED") @@ (ON :> "LightState.ON")
                @@ (OFF :> "LightState.OFF"))

\* C4, amended: the parser maps each cell, trimmed, so: the empty text and
\* `UNDETERMINED` to UNDETERMINED, `ON` to ON, `OFF` to OFF; every other
\* text makes it fail with the error quoting the trimmed text.
C4_MemberNames ==
    ParsedBy((<<>> :> "LightState.UNDETERMINED") @@ (ON :> "LightState.ON")
                @@ (OFF :> "LightState.OFF")
                @@ (UNDETERMINED :> "LightState.UNDETERMINED"))

\* A padded `UNDETERMINED` was accepted and the next cell was refused.
C4_Witness ==
    /\ statesRun.status = "raised"
    /\ Len(statesRun.out) = 1
    /\ statesRun.row[1] # UNDETERMINED
    /\ TrimOf(statesRun.row[1]) = UNDETERMINED
    /\ statesRun.error.about = <<"o", "n">>

-----------------------------------------------------------------------------
(* Properties of light_switches, under SpecSwitches                        *)

\* The state in force in block q (from 1): its own state if definite, else
\* that of the nearest earlier definite block.
RECURSIVE Effective(_, _)
Effective(states, q) ==
    IF q = 0 THEN "LightState.UNDETERMINED"
    ELSE IF states[q] # "LightState.UNDETERMINED" THEN states[q]
    ELSE Effective(states, q - 1)

SwitchTo(state) ==
    IF state = "LightState.ON" THEN "LightSwitch.ON" ELSE "LightSwitch.OFF"

Emitted == SelectSeq(switchesRun.out, LAMBDA sw : sw # None)

\* C1: in the output of light_switches, two switches adjacent once the
\* None are left out always differ.
C1_NoRedundantSwitches ==
    \A q \in 1..(Len(Emitted) - 1) : Emitted[q] # Emitted[q + 1]

\* C2: the first output is the switch to the first state, and at every
\* later block whose state is definite and differs from the state in force
\* in the block before it, the output is the switch to that block's state.
C2_NoChangeMissed ==
    \A q \in 1..Len(switchesRun.out) :
        LET state == switchesRun.states[q]
        IN  /\ q = 1 => switchesRun.out[q] = SwitchTo(state)
            /\ ( /\ q > 1
                 /\ state # "LightState.UNDETERMINED"
                 /\ state # Effective(switchesRun.states, q - 1) )
               => switchesRun.out[q] = SwitchTo(state)

\* A change right after an UNDETERMINED block, and a change back, were
\* both handled.
C2_Witness ==
    /\ switchesRun.status = "stopped"
    /\ switchesRun.states = <<"LightState.ON", "LightState.UNDETERMINED",
                              "LightState.OFF", "LightState.ON">>

\* C3: light_switches raises only before its first output, and exactly
\* so: on an empty list the empty-input error, on a list starting with
\* UNDETERMINED the indeterminate-start error; on any other list it runs
\* to the end and gives one output for each state.
C3_FailsOnlyAtStart ==
    LET states == switchesRun.states
    IN  /\ switchesRun.status = "raised" =>
             /\ switchesRun.out = <<>>
             /\ \/ states = <<>> /\ switchesRun.error = MustBeNonempty
                \/ /\ states # <<>>
                   /\ states[1] = "LightState.UNDETERMINED"
                   /\ switchesRun.error = FirstCannotBeUndetermined
        /\ switchesRun.status = "stopped" =>
             /\ states # <<>>
             /\ states[1] # "LightState.UNDETERMINED"
             /\ Len(switchesRun.out) = Len(states)
        /\ switchesRun.status = "running" =>
             /\ Len(switchesRun.out) = switchesRun.i
             /\ switchesRun.i > 0 => states[1] # "LightState.UNDETERMINED"

\* The indeterminate-start error was raised on a list with later states.
C3_Witness ==
    /\ switchesRun.status = "raised"
    /\ Len(switchesRun.states) > 1
    /\ switchesRun.states[1] = "LightState.UNDETERMINED"
    /\ switchesRun.states[2] = "LightState.ON"

-----------------------------------------------------------------------------
(* Properties of timed_switches, under SpecTimed                           *)

\* d[1] + ... + d[q]
RECURSIVE SumTo(_, _)
SumTo(d, q) == IF q = 0 THEN 0 ELSE SumTo(d, q - 1) + d[q]

\* For each of the first q switches that is not None, in order, the pair
\* of the sum of the durations of the blocks before it and the switch.
RECURSIVE Bound(_, _, _)
Bound(d, sws, q) ==
    IF q = 0 THEN <<>>
    ELSE Bound(d, sws, q - 1)
            \o (IF sws[q] # None THEN <<<<SumTo(d, q - 1), sws[q]>>>>
                ELSE <<>>)

\* C5: given as many switches as durations, timed_switches yields, for
\* each switch that is not None and in their order, that switch with the
\* sum of the durations before its block; None yields nothing.
C5_PrefixSums ==
    Len(timedRun.durations) = Len(timedRun.switches) =>
        /\ timedRun.out = Bound(timedRun.durations, timedRun.switches,
                                timedRun.j)
        /\ timedRun.status = "stopped" =>
             timedRun.j = Len(timedRun.switches)

\* Three blocks of different lengths, a None between two switches, done.
C5_Witness ==
    /\ timedRun.status = "stopped"
    /\ timedRun.durations = <<2, 1, 2>>
    /\ timedRun.switches = <<"LightSwitch.ON", None, "LightSwitch.OFF">>
    /\ timedRun.out = <<<<0, "LightSwitch.ON">>, <<3, "LightSwitch.OFF">>>>

\* C8: every timed switch comes from an index (from 0) below the shorter
\* of the two lengths.
C8_WithinShorter ==
    \A q \in 1..Len(timedRun.at) :
        timedRun.at[q] < Min(Len(timedRun.durations), Len(timedRun.switches))

-----------------------------------------------------------------------------
(* Properties of sorted_grouped_calls, under SpecGrouped                   *)

\* The names of the calls of one iterable that have time t, in its order.
NamesAt(calls, t) ==
    LET at == SelectSeq(calls, LAMBDA call : call[1] = t)
    IN  [q \in 1..Len(at) |-> at[q][2]]

\* The names of the calls with time t: those of the first iterable in its
\* order, then those of the second in its order, and so on.
RECURSIVE NamesInArgOrder(_, _)
NamesInArgOrder(args, t) ==
    IF args = <<>> THEN <<>>
    ELSE NamesInArgOrder(SubSeq(args, 1, Len(args) - 1), t)
            \o NamesAt(args[Len(args)], t)

\* C6: the names of every entry stand in the order of the iterables they
\* come from and, within one iterable, in its order; their text plays no
\* part.
C6_MergeStability ==
    \A q \in 1..Len(groupedRun.out) :
        groupedRun.out[q][2] =
            NamesInArgOrder(groupedRun.args, groupedRun.out[q][1])

\* The first iterable holds its calls out of time order, and at time 1 its
\* name comes after the second iterable's in the order of texts: the entry
\* at time 1 still lists the first iterable's name first.
C6_Witness ==
    /\ groupedRun.status = "stopped"
    /\ groupedRun.args =
         << << <<1, "turn_red_off">>, <<0, "turn_green_on">> >>,
            << <<1, "turn_green_on">> >> >>
    /\ groupedRun.out =
         << <<0, <<"turn_green_on">> >>,
            <<1, <<"turn_red_off", "turn_green_on">> >> >>

\* How often each element of a sequence occurs in it.
BagOf(seq) ==
    [x \in {seq[q] : q \in DOMAIN seq} |->
        Cardinality({q \in DOMAIN seq : seq[q] = x})]

\* The times of the calls of all the iterables.
TimesOf(args) ==
    UNION {{args[c][q][1] : q \in DOMAIN args[c]} : c \in DOMAIN args}

\* C7: the entries yielded have strictly increasing times, none is empty,
\* each holds exactly the names, as often as they occur, of the calls
\* given with its time, and at the end every time given has its entry.
C7_PartitionByTime ==
    LET out == groupedRun.out
    IN  /\ \A q \in 1..(Len(out) - 1) : out[q][1] < out[q + 1][1]
        /\ \A q \in 1..Len(out) :
             /\ out[q][2] # <<>>
             /\ BagOf(out[q][2]) =
                  BagOf(NamesInArgOrder(groupedRun.args, out[q][1]))
        /\ groupedRun.status = "stopped" =>
             {out[q][1] : q \in 1..Len(out)} = TimesOf(groupedRun.args)

\* Calls given out of order, one name twice at one time: two entries.
C7_Witness ==
    /\ groupedRun.status = "stopped"
    /\ groupedRun.args =
         << << <<1, "turn_red_off">>, <<0, "turn_red_off">> >>,
            << <<1, "turn_red_off">> >> >>
    /\ Len(groupedRun.out) = 2

-----------------------------------------------------------------------------
(* Properties of the script, under Spec                                    *)

\* C9: an entry is written only after the generators of every colour ran
\* to their end, and a run ended by an exception has written nothing.
C9_NoPartialSchedule ==
    /\ written # <<>> => \A c \in DOMAIN gens : gens[c].done
    /\ pc = "raised" => written = <<>>

\* The second colour's row raised after the first colour's row had given
\* its calls.
C9_Witness ==
    /\ pc = "raised"
    /\ chan = 2
    /\ chained # <<>>
    /\ gens[1].done

\* The c-th row holds a cell that is neither empty once trimmed nor the
\* name of a member of LightState.
HasInvalidCell(c) ==
    \E q \in 1..Len(rows[c]) :
        /\ TrimOf(rows[c][q]) # <<>>
        /\ TrimOf(rows[c][q]) \notin DOMAIN LightStateByName

\* C10: when a row holds an invalid cell, at whatever index, the script
\* never gets past chaining the calls and writes no entry.
C10_InvalidCellAlwaysReported ==
    (\E c \in DOMAIN rows : HasInvalidCell(c)) =>
        pc \notin {"group", "done"} /\ written = <<>>

=============================================================================
